---- MODULE Spec2Model ----
(***************************************************************************)
(* Backup / restore / auto-backup engine of the budget tracker.            *)
(*                                                                         *)
(*   utils/DatabaseManager.ts      the spending table (RecordStore)        *)
(*   utils/DatabaseBackup          DatabaseBackupManager (two copies of    *)
(*                                 the class exist: the best-effort one    *)
(*                                 and the transactional one)              *)
(*   utils/AutoBackupScheduler.ts  the SchedulePolicy state machine        *)
(*                                                                         *)
(* Time is a pair (day, millisecond of the day) because a month in         *)
(* milliseconds does not fit the model checker's integers; all arithmetic  *)
(* on it is exact.  Strings that the code formats, sanitizes, searches or  *)
(* compares (ISO timestamps, file names, date columns) are sequences of    *)
(* tokens.  Amounts are in cents.  The local time zone is UTC.             *)
(***************************************************************************)
EXTENDS Integers, Sequences, FiniteSets, TLC

VARIABLES
    now,          \* the wall clock, [day, ms]
    files,        \* the backups directory: file name -> parsed file content
    store,        \* the spending table: set of rows [id, amount, details, date]
    seq,          \* sqlite_sequence of the AUTOINCREMENT key
    settings,     \* AsyncStorage 'app_settings'
    schedule,     \* AutoBackupScheduler.schedule (in memory)
    saved,        \* AsyncStorage 'backup_schedule'
    registered,   \* the background task is registered with BackgroundFetch
    available,    \* BackgroundFetch.getStatusAsync() = Available
    screen,       \* the schedule state of the backup screen
    databaseInitialized,  \* the flag of DatabaseManager.ts
    table,        \* the spending table exists in spending.db
    calls,        \* initializeDatabase calls: call site -> position
    last,         \* outcome of the latest operation (observation only)
    hist          \* observations accumulated over the run

vars == <<now, files, store, seq, settings, schedule, saved, registered,
          available, screen, databaseInitialized, table, calls, last, hist>>

Database == <<databaseInitialized, table, calls>>

----------------------------------------------------------------------------
(* Bounds of the model *)

MaxCreates == 12
MaxOps == 4
MaxImports == 2

SkewChoices == {0, 1}

----------------------------------------------------------------------------
(* Time *)

MsPerDay == 86400000
MsPerMinute == 60000

Time(d, m) == [day |-> d, ms |-> m]

\* t + k milliseconds, 0 <= k < MsPerDay
PlusMs(t, k) ==
    IF t.ms + k < MsPerDay THEN Time(t.day, t.ms + k)
    ELSE Time(t.day + 1, t.ms + k - MsPerDay)

\* t - k milliseconds, 0 <= k < MsPerDay
MinusMs(t, k) ==
    IF t.ms >= k THEN Time(t.day, t.ms - k)
    ELSE Time(t.day - 1, t.ms + MsPerDay - k)

PlusDays(t, n) == Time(t.day + n, t.ms)

\* a.getTime() < b.getTime()
TimeLT(a, b) == a.day < b.day \/ (a.day = b.day /\ a.ms < b.ms)
TimeLE(a, b) == a = b \/ TimeLT(a, b)

----------------------------------------------------------------------------
(* Strings as token sequences *)

Num(n) == [k |-> "0", v |-> n]
Sym(c) == [k |-> c, v |-> 0]

\* Date.prototype.toISOString: YYYY-MM-DD T hh : mm : ss . mmm Z
\* (the calendar date YYYY-MM-DD is one fixed-width token)
ToISOString(t) ==
    << Num(t.day), Sym("T"),
       Num(t.ms \div 3600000), Sym(":"),
       Num((t.ms % 3600000) \div MsPerMinute), Sym(":"),
       Num((t.ms % MsPerMinute) \div 1000), Sym("."),
       Num(t.ms % 1000), Sym("Z") >>

\* toISOString().split("T")[0]
DateOnly(t) == << Num(t.day) >>

\* str.replace(/[:.]/g, '-')
Sanitize(s) ==
    [i \in DOMAIN s |-> IF s[i].k \in {":", "."} THEN Sym("-") ELSE s[i]]

IsISO(s) ==
    /\ Len(s) = 10
    /\ \A i \in {1, 3, 5, 7, 9} : s[i].k = "0"
    /\ s[2] = Sym("T") /\ s[4] = Sym(":") /\ s[6] = Sym(":")
    /\ s[8] = Sym(".") /\ s[10] = Sym("Z")
    /\ s[3].v < 24 /\ s[5].v < 60 /\ s[7].v < 60 /\ s[9].v < 1000

IsDateOnly(s) == Len(s) = 1 /\ s[1].k = "0"

\* new Date(str): valid for an ISO timestamp or a date-only string
ValidDate(s) == IsISO(s) \/ IsDateOnly(s)

\* new Date(str).getTime() of a valid date string
ParseDate(s) ==
    IF IsISO(s)
    THEN Time(s[1].v, s[3].v * 3600000 + s[5].v * MsPerMinute
                       + s[7].v * 1000 + s[9].v)
    ELSE Time(s[1].v, 0)

\* String.prototype.includes
Includes(s, sub) ==
    \E i \in 0..(Len(s) - Len(sub)) : SubSeq(s, i + 1, i + Len(sub)) = sub

\* byte order of the characters a token stands for
KindRank(k) ==
    CASE k = "-" -> 1
      [] k = "." -> 2
      [] k = "0" -> 3
      [] k = ":" -> 4
      [] k = "T" -> 5
      [] k = "Z" -> 6
      [] OTHER -> 7

TokLess(a, b) ==
    \/ KindRank(a.k) < KindRank(b.k)
    \/ (a.k = b.k /\ a.v < b.v)

\* a > b in SQLite's BINARY collation of TEXT (memcmp, then length)
TextGreater(a, b) ==
    \/ \E i \in 1..Len(b) :
          /\ i <= Len(a)
          /\ \A j \in 1..(i - 1) : a[j] = b[j]
          /\ TokLess(b[i], a[i])
    \/ (Len(a) > Len(b) /\ \A j \in 1..Len(b) : a[j] = b[j])

----------------------------------------------------------------------------
(* Values *)

Null == "null"
BACKUP_VERSION == "1.0.0"
MAX_BACKUPS == 10

Row(i, a, d, dt) == [id |-> i, amount |-> a, details |-> d, date |-> dt]

RECURSIVE SeqSum(_)
SeqSum(s) == IF s = << >> THEN 0 ELSE Head(s) + SeqSum(Tail(s))

SeqToSet(s) == {s[i] : i \in DOMAIN s}

----------------------------------------------------------------------------
(* The spending table *)

\* sort key of "ORDER BY date DESC" (rows with equal dates: by rowid)
RowBefore(a, b) ==
    \/ TextGreater(a.date, b.date)
    \/ (a.date = b.date /\ a.id < b.id)

RECURSIVE SelectAll(_)
\* SELECT * FROM spending ORDER BY date DESC
SelectAll(rows) ==
    IF rows = {} THEN << >>
    ELSE LET first == CHOOSE r \in rows :
                          \A o \in rows \ {r} : RowBefore(r, o)
         IN  <<first>> \o SelectAll(rows \ {first})

----------------------------------------------------------------------------
(* DatabaseBackupManager: pure parts *)

\* JSON.parse(content) succeeded
Parsable(c) == "raw" \notin DOMAIN c

\* a file cut short by an interrupted write
Truncated == [raw |-> "{"]

Has(r, f) == f \in DOMAIN r

\* !record.id || !record.amount || !record.details || !record.date
RecordIncomplete(r) ==
    \/ ~Has(r, "id") \/ r.id = 0
    \/ ~Has(r, "amount") \/ r.amount = 0
    \/ ~Has(r, "details") \/ r.details = ""
    \/ ~Has(r, "date") \/ r.date = << >>

\* the mutation of verifyBackupIntegrity that leaves the records unread
verifyBackupIntegrityShallow(c) ==
    /\ Parsable(c)
    /\ Has(c, "version") /\ c.version # ""
    /\ Has(c, "timestamp") /\ c.timestamp # << >>
    /\ Has(c, "spending")
    /\ c.spending.isArray

verifyBackupIntegrity(c) ==
    /\ Parsable(c)
    /\ Has(c, "version") /\ c.version # ""
    /\ Has(c, "timestamp") /\ c.timestamp # << >>
    /\ Has(c, "spending")
    /\ c.spending.isArray
    /\ \A i \in DOMAIN c.spending.items : ~RecordIncomplete(c.spending.items[i])

\* calculateMetadata throws (RangeError of toISOString) on an invalid date
MetadataThrows(spending) ==
    \E i \in DOMAIN spending : ~ValidDate(spending[i].date)

MinTime(S) == CHOOSE t \in S : \A u \in S : TimeLE(t, u)
MaxTime(S) == CHOOSE t \in S : \A u \in S : TimeLE(u, t)

\* the mutation of calculateMetadata that totals the first amount alone
calculateMetadataFirst(spending) ==
    IF Len(spending) = 0
    THEN [totalRecords |-> 0,
          dateRange |-> [earliest |-> << >>, latest |-> << >>],
          totalAmount |-> 0]
    ELSE LET dates == {ParseDate(spending[i].date) : i \in DOMAIN spending}
         IN  [totalRecords |-> Len(spending),
              dateRange |-> [earliest |-> ToISOString(MinTime(dates)),
                             latest |-> ToISOString(MaxTime(dates))],
              totalAmount |-> spending[1].amount]

calculateMetadata(spending) ==
    IF Len(spending) = 0
    THEN [totalRecords |-> 0,
          dateRange |-> [earliest |-> << >>, latest |-> << >>],
          totalAmount |-> 0]
    ELSE LET dates == {ParseDate(spending[i].date) : i \in DOMAIN spending}
         IN  [totalRecords |-> Len(spending),
              dateRange |-> [earliest |-> ToISOString(MinTime(dates)),
                             latest |-> ToISOString(MaxTime(dates))],
              totalAmount |-> SeqSum([i \in DOMAIN spending |-> spending[i].amount])]

CreatedName(stamp) == <<Sym("budget_backup_")>> \o stamp \o <<Sym(".json")>>
ImportedName(stamp) ==
    <<Sym("budget_backup_"), Sym("imported_")>> \o stamp \o <<Sym(".json")>>

\* the files of the directory whose name includes the id
Matching(dir, backupId) == {f \in DOMAIN dir : Includes(f, backupId)}

\* findBackupFile; the names of the directory hold pairwise different
\* fragments, so that at most one of them includes a sanitized timestamp
Found(dir, backupId) == Matching(dir, backupId) # {}
findBackupFile(dir, backupId) == CHOOSE f \in Matching(dir, backupId) : TRUE

\* the entry getAvailableBackups builds for one file (size left out)
InfoOf(dir, f) ==
    [id |-> Sanitize(dir[f].timestamp),
     filename |-> f,
     timestamp |-> dir[f].timestamp,
     recordCount |-> IF Has(dir[f], "spending") /\ dir[f].spending.isArray
                     THEN Len(dir[f].spending.items) ELSE 0,
     totalAmount |-> IF Has(dir[f], "metadata") THEN dir[f].metadata.totalAmount ELSE 0,
     isVerified |-> verifyBackupIntegrity(dir[f])]

\* files whose content parses and whose timestamp is a string
Listable(dir) == {f \in DOMAIN dir : Parsable(dir[f]) /\ Has(dir[f], "timestamp")}

\* newest first; entries of equal timestamp in directory order (by name here)
InfoBefore(a, b) ==
    \/ TimeLT(ParseDate(b.timestamp), ParseDate(a.timestamp))
    \/ (a.timestamp = b.timestamp /\ a.filename # b.filename
        /\ (Len(a.filename) < Len(b.filename)
            \/ (Len(a.filename) = Len(b.filename)
                /\ TextGreater(b.filename, a.filename))))

RECURSIVE SortInfos(_)
SortInfos(S) ==
    IF S = {} THEN << >>
    ELSE LET first == CHOOSE x \in S : \A o \in S \ {x} : InfoBefore(x, o)
         IN  <<first>> \o SortInfos(S \ {first})

getAvailableBackups(dir) == SortInfos({InfoOf(dir, f) : f \in Listable(dir)})

Remove(dir, f) == [g \in (DOMAIN dir) \ {f} |-> dir[g]]
Put(dir, f, c) == [g \in (DOMAIN dir) \cup {f} |-> IF g = f THEN c ELSE dir[g]]

RECURSIVE DeleteEach(_, _)
\* the loop of cleanupOldBackups: deleteBackup throws on the first id that
\* no file name includes, and the surrounding catch ends the clean-up
DeleteEach(dir, ids) ==
    IF ids = << >> THEN dir
    ELSE IF ~Found(dir, Head(ids)) THEN dir
    ELSE DeleteEach(Remove(dir, findBackupFile(dir, Head(ids))), Tail(ids))

cleanupOldBackups(dir) ==
    LET backups == getAvailableBackups(dir)
    IN  IF Len(backups) > MAX_BACKUPS
        THEN DeleteEach(dir, [i \in 1..(Len(backups) - MAX_BACKUPS)
                                  |-> backups[MAX_BACKUPS + i].id])
        ELSE dir

\* the document createBackup writes at clock reading t1
BackupData(rows, stg, t1) ==
    [version |-> BACKUP_VERSION,
     timestamp |-> ToISOString(t1),
     spending |-> [isArray |-> TRUE, items |-> rows],
     settings |-> stg,
     metadata |-> calculateMetadata(rows)]

----------------------------------------------------------------------------
(* Initial state: a fresh installation *)

\* "HH:MM"
Clock(h, m) == << Num(h), Sym(":"), Num(m) >>

DEFAULT_SCHEDULE ==
    [enabled |-> FALSE, frequency |-> "weekly", time |-> Clock(2, 0),
     lastBackup |-> << >>]

StartTime == Time(100, 7199998)

NoOp == [op |-> "none"]

\* call sites that await initializeDatabase before their own statement
Callers == {"addSpending", "getAllSpending", "getDatabase"}

\* the application has started: Database.init() has run
Started ==
    /\ databaseInitialized = TRUE
    /\ table = TRUE
    /\ calls = [c \in Callers |-> "idle"]

InitAny ==
    /\ Started
    /\ now = StartTime
    /\ files = << >>
    /\ store = {}
    /\ seq = 0
    /\ settings = Null
    /\ schedule = DEFAULT_SCHEDULE
    /\ screen = DEFAULT_SCHEDULE
    /\ saved = << >>
    /\ registered = FALSE
    /\ available \in BOOLEAN
    /\ last = NoOp
    /\ hist = [nops |-> 0, ncreate |-> 0, nimport |-> 0, nticks |-> 0,
               nedits |-> 0, created |-> {}, inserted |-> {}]

Init == InitAny /\ available = TRUE

Count(h, creates, imports, stamps) ==
    [h EXCEPT !.nops = @ + 1, !.ncreate = @ + creates,
              !.nimport = @ + imports, !.created = @ \cup stamps]

----------------------------------------------------------------------------
(* DatabaseBackupManager.createBackup *)

\* the mutation of CreateOutcome that gives up when the table cannot be read
CreateOutcomeAborting(skew, failedReads, write) ==
    LET spending == IF "spending" \in failedReads THEN << >> ELSE SelectAll(store)
        stg == IF "settings" \in failedReads THEN Null ELSE settings
        t2 == PlusMs(now, skew)
        stamp == Sanitize(ToISOString(t2))
        filename == CreatedName(stamp)
        data == BackupData(spending, stg, now)
    IN  IF "spending" \in failedReads \/ MetadataThrows(spending)
        THEN [ok |-> FALSE, files |-> files, t2 |-> t2]
        ELSE IF write = "fails"
        THEN [ok |-> FALSE, files |-> files, t2 |-> t2]
        ELSE IF write = "partial"
        THEN [ok |-> FALSE, files |-> Put(files, filename, Truncated), t2 |-> t2]
        ELSE [ok |-> TRUE,
              files |-> cleanupOldBackups(Put(files, filename, data)),
              t2 |-> t2,
              data |-> data,
              info |-> [id |-> stamp, filename |-> filename,
                        timestamp |-> data.timestamp,
                        recordCount |-> Len(spending),
                        totalAmount |-> data.metadata.totalAmount,
                        isVerified |-> TRUE]]

\* skew: milliseconds between the two clock readings of createBackup
\* failedReads: the reads that fail, of "spending" (both attempts to read
\*        the table) and "settings" (AsyncStorage.getItem or JSON.parse)
\* write: writeAsStringAsync succeeds ("ok"), fails leaving nothing
\*        ("fails") or fails leaving a truncated file ("partial")
\* The result: whether createBackup returned, the directory it leaves, the
\* BackupInfo it returns, the document it wrote, the second clock reading.
CreateOutcome(skew, failedReads, write) ==
    LET spending == IF "spending" \in failedReads THEN << >> ELSE SelectAll(store)
        stg == IF "settings" \in failedReads THEN Null ELSE settings
        t2 == PlusMs(now, skew)
        stamp == Sanitize(ToISOString(t2))
        filename == CreatedName(stamp)
        data == BackupData(spending, stg, now)
    IN  IF MetadataThrows(spending)
        THEN [ok |-> FALSE, files |-> files, t2 |-> t2]
        ELSE IF write = "fails"
        THEN [ok |-> FALSE, files |-> files, t2 |-> t2]
        ELSE IF write = "partial"
        THEN [ok |-> FALSE, files |-> Put(files, filename, Truncated), t2 |-> t2]
        ELSE [ok |-> TRUE,
              files |-> cleanupOldBackups(Put(files, filename, data)),
              t2 |-> t2,
              data |-> data,
              info |-> [id |-> stamp, filename |-> filename,
                        timestamp |-> data.timestamp,
                        recordCount |-> Len(spending),
                        totalAmount |-> data.metadata.totalAmount,
                        isVerified |-> TRUE]]

\* gap: milliseconds the awaited file calls take after the second reading
createBackup(skew, gap, failedReads, write) ==
    LET out == CreateOutcome(skew, failedReads, write)
    IN  /\ now' = PlusMs(out.t2, gap)
        /\ files' = out.files
        /\ IF out.ok
           THEN /\ last' = [op |-> "create", ok |-> TRUE, info |-> out.info,
                            failedReads |-> failedReads]
                /\ hist' = Count(hist, 1, 0, {out.data.timestamp})
           ELSE /\ last' = [op |-> "create", ok |-> FALSE,
                            failedReads |-> failedReads]
                /\ hist' = Count(hist, 0, 0, {})
        /\ UNCHANGED <<store, seq, settings>>

----------------------------------------------------------------------------
(* Database.addSpending, deleteSpending (DatabaseManager.ts) *)

DEDUP_WINDOW == 5 * MsPerMinute

\* rows the duplicate query returns at clock reading t
Duplicates(rows, amount, details, t) ==
    {r \in rows : /\ r.amount = amount
                  /\ r.details = details
                  /\ TextGreater(r.date, ToISOString(MinusMs(t, DEDUP_WINDOW)))}

addSpending(amount, details, date, gap) ==
    LET existing == Duplicates(store, amount, details, now)
        id == seq + 1
    IN  /\ now' = PlusMs(now, gap)
        /\ IF existing # {}
           THEN /\ UNCHANGED <<store, seq>>
                /\ last' = [op |-> "add", amount |-> amount, details |-> details,
                            date |-> date, at |-> now, changes |-> 0,
                            pre |-> store]
                /\ hist' = Count(hist, 0, 0, {})
           ELSE /\ store' = store \cup {Row(id, amount, details, date)}
                /\ seq' = id
                /\ last' = [op |-> "add", amount |-> amount, details |-> details,
                            date |-> date, at |-> now, changes |-> 1,
                            pre |-> store]
                /\ hist' = [Count(hist, 0, 0, {}) EXCEPT
                               !.inserted = @ \cup {[id |-> id, at |-> now]}]
        /\ UNCHANGED <<files, settings>>

\* the statements of addSpending's single try block, in the order they run
AddStatements == <<"lookup", "insert">>

\* addSpending when the statement named by failing rejects: the catch block
\* logs and rethrows, so no later statement of the try block runs
addSpendingThrows(amount, details, date, gap, failing) ==
    LET existing == Duplicates(store, amount, details, now)
    IN  /\ failing \in {AddStatements[i] : i \in 1..Len(AddStatements)}
        \* the insert statement is reached only when no duplicate was found
        /\ failing = "insert" => existing = {}
        /\ now' = PlusMs(now, gap)
        /\ last' = [op |-> "addThrew", amount |-> amount, details |-> details,
                    date |-> date, at |-> now, failing |-> failing,
                    pre |-> store]
        /\ hist' = Count(hist, 0, 0, {})
        /\ UNCHANGED <<store, seq, files, settings>>

deleteSpending(id, gap) ==
    /\ now' = PlusMs(now, gap)
    /\ store' = {r \in store : r.id # id}
    /\ last' = [op |-> "deleteSpending", id |-> id]
    /\ hist' = Count(hist, 0, 0, {})
    /\ UNCHANGED <<seq, files, settings>>

\* settings screen: AsyncStorage.setItem("app_settings", ...)
saveSettings(value, gap) ==
    /\ now' = PlusMs(now, gap)
    /\ settings' = value
    /\ last' = [op |-> "saveSettings"]
    /\ hist' = Count(hist, 0, 0, {})
    /\ UNCHANGED <<store, seq, files>>

----------------------------------------------------------------------------
(* DatabaseBackupManager.importBackup, deleteBackup *)

\* the mutation of ImportRejected that forgets the integrity check
ImportRejectedUnverified(source) == ~Parsable(source)

\* importBackup throws before it writes: JSON.parse or the integrity check
ImportRejected(source) ==
    ~Parsable(source) \/ ~verifyBackupIntegrity(source)

importBackup(source, gap) ==
    LET stamp == Sanitize(ToISOString(now))
        filename == ImportedName(stamp)
    IN  /\ now' = PlusMs(now, gap)
        /\ IF ImportRejected(source)
           THEN /\ files' = files
                /\ last' = [op |-> "import", ok |-> FALSE, pre |-> files,
                            source |-> source]
                /\ hist' = Count(hist, 0, 0, {})
           ELSE /\ files' = Put(files, filename, source)
                /\ last' = [op |-> "import", ok |-> TRUE, pre |-> files,
                            source |-> source,
                            info |-> [id |-> stamp, filename |-> filename,
                                      timestamp |-> source.timestamp,
                                      recordCount |->
                                          IF Has(source, "spending")
                                             /\ source.spending.isArray
                                          THEN Len(source.spending.items)
                                          ELSE 0,
                                      totalAmount |->
                                          IF Has(source, "metadata")
                                          THEN source.metadata.totalAmount ELSE 0,
                                      isVerified |-> TRUE]]
                /\ hist' = Count(hist, 0, 1, {})
        /\ UNCHANGED <<store, seq, settings>>

deleteBackup(backupId, gap) ==
    /\ now' = PlusMs(now, gap)
    /\ IF Found(files, backupId)
       THEN /\ files' = Remove(files, findBackupFile(files, backupId))
            /\ last' = [op |-> "deleteBackup", ok |-> TRUE, id |-> backupId,
                        file |-> findBackupFile(files, backupId)]
       ELSE /\ files' = files
            /\ last' = [op |-> "deleteBackup", ok |-> FALSE, id |-> backupId]
    /\ hist' = Count(hist, 0, 0, {})
    /\ UNCHANGED <<store, seq, settings>>

\* the mutation of exportBackup that moves the file instead of copying it
exportBackupMoving(backupId, gap) ==
    /\ now' = PlusMs(now, gap)
    /\ last' = IF Found(files, backupId)
               THEN [op |-> "export", ok |-> TRUE, id |-> backupId,
                     copy |-> files[findBackupFile(files, backupId)]]
               ELSE [op |-> "export", ok |-> FALSE, id |-> backupId]
    /\ files' = IF Found(files, backupId)
                THEN Remove(files, findBackupFile(files, backupId)) ELSE files
    /\ hist' = Count(hist, 0, 0, {})
    /\ UNCHANGED <<store, seq, settings>>

\* exportBackup copies the file to the cache directory and returns the copy's path
exportBackup(backupId, gap) ==
    /\ now' = PlusMs(now, gap)
    /\ last' = IF Found(files, backupId)
               THEN [op |-> "export", ok |-> TRUE, id |-> backupId,
                     copy |-> files[findBackupFile(files, backupId)]]
               ELSE [op |-> "export", ok |-> FALSE, id |-> backupId]
    /\ hist' = Count(hist, 0, 0, {})
    /\ UNCHANGED <<files, store, seq, settings>>

\* the exported getAvailableBackups
listBackups(gap) ==
    /\ now' = PlusMs(now, gap)
    /\ last' = [op |-> "list", result |-> getAvailableBackups(files)]
    /\ hist' = Count(hist, 0, 0, {})
    /\ UNCHANGED <<files, store, seq, settings>>

\* getBackupStats (sizes left out)
getBackupStats(gap) ==
    LET backups == getAvailableBackups(files)
    IN  /\ now' = PlusMs(now, gap)
        /\ last' = [op |-> "stats",
                    totalBackups |-> Len(backups),
                    oldestBackup |-> IF Len(backups) > 0
                                     THEN backups[Len(backups)].timestamp ELSE << >>,
                    newestBackup |-> IF Len(backups) > 0
                                     THEN backups[1].timestamp ELSE << >>]
        /\ hist' = Count(hist, 0, 0, {})
        /\ UNCHANGED <<files, store, seq, settings>>

----------------------------------------------------------------------------
(* DatabaseBackupManager.restoreFromBackup, both copies *)

Max(a, b) == IF a > b THEN a ELSE b

RECURSIVE MaxId(_)
MaxId(rows) ==
    IF rows = {} THEN 0
    ELSE LET r == CHOOSE x \in rows : TRUE
         IN  Max(r.id, MaxId(rows \ {r}))

\* the guard of the best-effort loop:
\* !record.id || record.amount === undefined || !record.details || !record.date
SkippedAsInvalid(r) ==
    \/ ~Has(r, "id") \/ r.id = 0
    \/ ~Has(r, "amount")
    \/ ~Has(r, "details") \/ r.details = ""
    \/ ~Has(r, "date") \/ r.date = << >>

\* INSERT INTO spending (id, ...) fails: an I/O error (the index is in
\* fails) or the primary key is taken
InsertFails(acc, items, i, fails) ==
    i \in fails \/ \E r \in acc : r.id = items[i].id

RECURSIVE InsertAborting(_, _, _, _)
\* the mutation of InsertBestEffort that gives up at the first insert that
\* fails
InsertAborting(acc, items, i, fails) ==
    IF i > Len(items) THEN acc
    ELSE IF SkippedAsInvalid(items[i])
         THEN InsertAborting(acc, items, i + 1, fails)
    ELSE IF InsertFails(acc, items, i, fails) THEN acc
         ELSE InsertAborting(
                  acc \cup {Row(items[i].id, items[i].amount,
                                items[i].details, items[i].date)},
                  items, i + 1, fails)

RECURSIVE InsertBestEffort(_, _, _, _)
\* the loop of the best-effort copy from record i on: a record that is
\* invalid or whose insert fails is skipped
InsertBestEffort(acc, items, i, fails) ==
    IF i > Len(items) THEN acc
    ELSE IF SkippedAsInvalid(items[i]) \/ InsertFails(acc, items, i, fails)
         THEN InsertBestEffort(acc, items, i + 1, fails)
         ELSE InsertBestEffort(
                  acc \cup {Row(items[i].id, items[i].amount,
                                items[i].details, items[i].date)},
                  items, i + 1, fails)

RECURSIVE AnyInsertFails(_, _, _, _)
\* the loop of the transactional copy: the first failing insert throws
AnyInsertFails(acc, items, i, fails) ==
    IF i > Len(items) THEN FALSE
    ELSE IF InsertFails(acc, items, i, fails) THEN TRUE
         ELSE AnyInsertFails(
                  acc \cup {Row(items[i].id, items[i].amount,
                                items[i].details, items[i].date)},
                  items, i + 1, fails)

RowsOf(items) ==
    {Row(items[i].id, items[i].amount, items[i].details, items[i].date) :
        i \in DOMAIN items}

CarriesSettings(c) == Has(c, "settings") /\ c.settings # Null

\* the mutation of Rejection that forgets the integrity check
RejectionUnverified(dir, backupId) ==
    IF ~Found(dir, backupId) THEN "notfound"
    ELSE IF ~Parsable(dir[findBackupFile(dir, backupId)]) THEN "corrupt"
    ELSE ""

\* why restore throws before it touches the database, "" if it does not
Rejection(dir, backupId) ==
    IF ~Found(dir, backupId) THEN "notfound"
    ELSE IF ~Parsable(dir[findBackupFile(dir, backupId)]) THEN "corrupt"
    ELSE IF ~verifyBackupIntegrity(dir[findBackupFile(dir, backupId)])
         THEN "invalid"
    ELSE ""

RestoreObs(tx, backupId, reason, modified) ==
    [op |-> "restore", tx |-> tx, id |-> backupId, ok |-> reason = "ok",
     reason |-> reason, modified |-> modified,
     pre |-> store, preSettings |-> settings,
     file |-> IF Found(files, backupId)
              THEN findBackupFile(files, backupId) ELSE << >>]

\* the best-effort copy (no transaction)
\* fault: the awaited call that fails with an I/O error, "none" if none
\* fails: the indices of the records whose INSERT fails with an I/O error
restoreFromBackup(backupId, fault, fails, gap) ==
    LET rej == Rejection(files, backupId)
        data == files[findBackupFile(files, backupId)]
        items == data.spending.items
        rows == InsertBestEffort({}, items, 1, fails)
    IN  /\ now' = PlusMs(now, gap)
        /\ hist' = Count(hist, 0, 0, {})
        /\ UNCHANGED files
        /\ IF rej # ""
           THEN /\ UNCHANGED <<store, seq, settings>>
                /\ last' = RestoreObs(FALSE, backupId, rej, FALSE)
           ELSE IF fault = "delete"
           THEN /\ UNCHANGED <<store, seq, settings>>
                /\ last' = RestoreObs(FALSE, backupId, "delete", FALSE)
           ELSE /\ store' = rows
                /\ seq' = Max(seq, MaxId(rows))
                /\ IF CarriesSettings(data) /\ fault = "settings"
                   THEN /\ UNCHANGED settings
                        /\ last' = RestoreObs(FALSE, backupId, "settings", TRUE)
                   ELSE /\ settings' = IF CarriesSettings(data)
                                       THEN data.settings ELSE settings
                        /\ last' = RestoreObs(FALSE, backupId,
                                      IF fault = "count" THEN "count"
                                      ELSE IF Len(items) > 0 /\ rows = {}
                                           THEN "zero" ELSE "ok",
                                      TRUE) @@ [fails |-> fails]

\* the transactional copy (BEGIN TRANSACTION ... COMMIT / ROLLBACK)
restoreFromBackupTx(backupId, fault, fails, gap) ==
    LET rej == Rejection(files, backupId)
        data == files[findBackupFile(files, backupId)]
        items == data.spending.items
        rows == RowsOf(items)
    IN  /\ now' = PlusMs(now, gap)
        /\ hist' = Count(hist, 0, 0, {})
        /\ UNCHANGED files
        /\ IF rej # ""
           THEN /\ UNCHANGED <<store, seq, settings>>
                /\ last' = RestoreObs(TRUE, backupId, rej, FALSE)
           ELSE IF fault = "begin"
           THEN /\ UNCHANGED <<store, seq, settings>>
                /\ last' = RestoreObs(TRUE, backupId, "begin", FALSE)
           ELSE IF fault = "delete"
           THEN /\ UNCHANGED <<store, seq, settings>>
                /\ last' = RestoreObs(TRUE, backupId, "delete", FALSE)
           ELSE IF AnyInsertFails({}, items, 1, fails)
           THEN /\ UNCHANGED <<store, seq, settings>>
                /\ last' = RestoreObs(TRUE, backupId, "insert", TRUE)
           ELSE IF CarriesSettings(data) /\ fault = "settings"
           THEN /\ UNCHANGED <<store, seq, settings>>
                /\ last' = RestoreObs(TRUE, backupId, "settings", TRUE)
           ELSE /\ settings' = IF CarriesSettings(data)
                               THEN data.settings ELSE settings
                /\ IF fault = "commit"
                   THEN /\ UNCHANGED <<store, seq>>
                        /\ last' = RestoreObs(TRUE, backupId, "commit", TRUE)
                   ELSE /\ store' = rows
                        /\ seq' = Max(seq, MaxId(rows))
                        /\ last' = RestoreObs(TRUE, backupId, "ok", TRUE)

----------------------------------------------------------------------------
(* Retention: only createBackup runs, from an empty directory *)

RetentionCreate ==
    /\ hist.ncreate < MaxCreates
    /\ \E skew \in SkewChoices :
          createBackup(skew, 1, {}, "ok")
    /\ UNCHANGED <<schedule, saved, registered, available, screen, Database>>

NextRetention == RetentionCreate

SpecRetention == Init /\ [][NextRetention]_vars

\* the n timestamps of S that no n others follow
MostRecent(S, n) ==
    {s \in S : Cardinality({u \in S : TimeLT(ParseDate(s), ParseDate(u))}) < n}

ListedStamps == {getAvailableBackups(files)[i].timestamp :
                    i \in DOMAIN getAvailableBackups(files)}

\* C1: after N > 10 successful createBackup calls and nothing else, starting
\* from an empty directory, getAvailableBackups returns exactly 10 entries,
\* the 10 snapshots of most recent timestamp.
C1_RetentionKeepsTenMostRecent ==
    (hist.ncreate > MAX_BACKUPS /\ hist.nops = hist.ncreate)
        => /\ Len(getAvailableBackups(files)) = MAX_BACKUPS
           /\ ListedStamps = MostRecent(hist.created, MAX_BACKUPS)

----------------------------------------------------------------------------
(* The backup screen and the entry screens: every operation, with faults *)

FormAmounts == {1250}
NotificationAmounts == {0, 300}
DetailsSet == {"Coffee"}
SettingsValues == {"s1"}
RestoreFaults == {"none", "delete", "settings", "count"}
RestoreTxFaults == {"none", "begin", "delete", "settings", "commit"}
WriteOutcomes == {"ok", "fails", "partial"}

OldStamp == ToISOString(Time(90, 0))
OldDate == DateOnly(Time(90, 0))

\* documents the user may pick for import, besides copies of exported files
ForeignSources ==
    { Truncated,
      [version |-> BACKUP_VERSION, timestamp |-> OldStamp],
      [version |-> BACKUP_VERSION, timestamp |-> OldStamp,
       spending |-> [isArray |-> FALSE, items |-> << >>]],
      [version |-> BACKUP_VERSION, timestamp |-> OldStamp,
       spending |-> [isArray |-> TRUE,
                     items |-> << [id |-> 1, details |-> "Tea", date |-> OldDate] >>]],
      [version |-> BACKUP_VERSION, timestamp |-> OldStamp,
       spending |-> [isArray |-> TRUE,
                     items |-> << Row(1, 500, "Tea", OldDate) >>],
       settings |-> "s2"],
      [version |-> "0.9.0", timestamp |-> OldStamp,
       spending |-> [isArray |-> TRUE,
                     items |-> << Row(1, 500, "Tea", OldDate),
                                  Row(1, 700, "Rent", OldDate) >>],
       settings |-> "s2",
       metadata |-> calculateMetadata(<< Row(1, 500, "Tea", OldDate),
                                         Row(1, 700, "Rent", OldDate) >>)] }

ImportSources == ForeignSources \cup {files[f] : f \in DOMAIN files}

\* the id createBackup or importBackup returned for the file it wrote
ReturnedId(f) ==
    IF f[2] = Sym("imported_") THEN SubSeq(f, 3, Len(f) - 1)
    ELSE SubSeq(f, 2, Len(f) - 1)

MissingId == Sanitize(OldStamp)

ListedIds == {InfoOf(files, f).id : f \in Listable(files)}

\* ids a caller can hold: listed ones, returned ones, one of a deleted backup
KnownIds == ListedIds \cup {ReturnedId(f) : f \in DOMAIN files} \cup {MissingId}

Bounded == hist.nops < MaxOps
Scheduler == <<schedule, saved, registered, available, screen>>

AddFromForm ==
    /\ Bounded
    /\ \E a \in FormAmounts, d \in DetailsSet :
          addSpending(a, d, DateOnly(now), 1)
    /\ UNCHANGED <<Scheduler, Database>>

AddFromNotification ==
    /\ Bounded
    /\ \E a \in NotificationAmounts, d \in DetailsSet :
          addSpending(a, d, ToISOString(now), 1)
    /\ UNCHANGED <<Scheduler, Database>>

DeleteSpending ==
    /\ Bounded
    /\ \E r \in store : deleteSpending(r.id, 1)
    /\ UNCHANGED <<Scheduler, Database>>

SaveSettings ==
    /\ Bounded
    /\ \E v \in SettingsValues : saveSettings(v, 1)
    /\ UNCHANGED <<Scheduler, Database>>

CreateBackup ==
    /\ Bounded
    /\ \E skew \in SkewChoices, w \in WriteOutcomes :
          createBackup(skew, 1, {}, w)
    /\ UNCHANGED <<Scheduler, Database>>

ImportBackup ==
    /\ Bounded
    /\ hist.nimport < MaxImports
    /\ \E src \in ImportSources : importBackup(src, 1)
    /\ UNCHANGED <<Scheduler, Database>>

DeleteBackup ==
    /\ Bounded
    /\ \E id \in KnownIds : deleteBackup(id, 1)
    /\ UNCHANGED <<Scheduler, Database>>

ExportBackup ==
    /\ Bounded
    /\ \E id \in KnownIds : exportBackup(id, 1)
    /\ UNCHANGED <<Scheduler, Database>>

ListBackups ==
    /\ Bounded
    /\ listBackups(1)
    /\ UNCHANGED <<Scheduler, Database>>

BackupStats ==
    /\ Bounded
    /\ getBackupStats(1)
    /\ UNCHANGED <<Scheduler, Database>>

FailSets(id) ==
    IF Rejection(files, id) = "" 
    THEN SUBSET (DOMAIN files[findBackupFile(files, id)].spending.items)
    ELSE {{}}

RestoreFromBackup ==
    /\ Bounded
    /\ \E id \in KnownIds, fault \in RestoreFaults :
          \E fails \in FailSets(id) :
              restoreFromBackup(id, fault, fails, 1)
    /\ UNCHANGED <<Scheduler, Database>>

RestoreFromBackupTx ==
    /\ Bounded
    /\ \E id \in KnownIds, fault \in RestoreTxFaults :
          \E fails \in FailSets(id) :
              restoreFromBackupTx(id, fault, fails, 1)
    /\ UNCHANGED <<Scheduler, Database>>

Next ==
    \/ AddFromForm
    \/ AddFromNotification
    \/ DeleteSpending
    \/ SaveSettings
    \/ CreateBackup
    \/ ImportBackup
    \/ DeleteBackup
    \/ RestoreFromBackup
    \/ RestoreFromBackupTx

Spec == Init /\ [][Next]_vars

----------------------------------------------------------------------------
(* Properties of restore, import and the directory *)

Restored == last.op = "restore"
SnapshotOf(f) == files[f]

\* C2: whenever restoreFromBackup returns successfully for a snapshot, the
\* spending table holds exactly the records of the snapshot.
C2_RestoreYieldsSnapshot ==
    (Restored /\ last.ok)
        => store = RowsOf(SnapshotOf(last.file).spending.items)

\* C3: a restore that fails after it started modifying the table leaves
\* the table as it was before the call.
C3_FailedRestoreRollsBack ==
    (Restored /\ ~last.ok /\ last.modified) => store = last.pre

\* C4: a restore of an id that directly follows a restore of the same id
\* (both returning successfully) leaves the table as the first one left it.
C4_RestoreIdempotent ==
    [][(/\ Restored /\ last.ok
        /\ last'.op = "restore" /\ last'.ok
        /\ last'.id = last.id
        /\ hist'.nops = hist.nops + 1)
       => store' = store]_vars

\* what the specification of verify rejects: a document without version,
\* timestamp or records array, or with a record lacking one of its fields
FailsVerification(c) ==
    \/ ~Has(c, "version") \/ ~Has(c, "timestamp")
    \/ ~Has(c, "spending") \/ ~c.spending.isArray
    \/ \E i \in DOMAIN c.spending.items :
          \E f \in {"id", "amount", "details", "date"} :
              ~Has(c.spending.items[i], f)

\* C8: importBackup of a source that is unparsable or fails verification
\* raises an error and leaves the backup directory as it was.
C8_RejectedImportLeavesDirectory ==
    (last.op = "import"
        /\ (~Parsable(last.source) \/ FailsVerification(last.source)))
        => (~last.ok /\ files = last.pre)

\* a document without records array was refused while the directory
\* held a backup
C8_Witness ==
    /\ last.op = "import" /\ ~last.ok
    /\ Parsable(last.source) /\ ~Has(last.source, "spending")
    /\ DOMAIN files # {}

\* C9: the entries of getAvailableBackups have pairwise distinct ids, and
\* the id of each entry is the fragment of the name of its own file, which
\* is the one file findBackupFile selects for that id.
C9_IdsIdentifyFiles ==
    LET l == getAvailableBackups(files)
    IN  /\ \A i, j \in DOMAIN l : i # j => l[i].id # l[j].id
        /\ \A i \in DOMAIN l :
              /\ l[i].id = ReturnedId(l[i].filename)
              /\ Matching(files, l[i].id) = {l[i].filename}

\* C10: a restore whose id matches no file, or whose file is not valid
\* JSON or fails verification, raises an error and leaves the table and
\* the stored settings as they were.
C10_RejectedRestoreLeavesState ==
    (Restored
        /\ (\/ ~Found(files, last.id)
            \/ ~Parsable(SnapshotOf(last.file))
            \/ FailsVerification(SnapshotOf(last.file))
            \/ \E i \in DOMAIN SnapshotOf(last.file).spending.items :
                  SnapshotOf(last.file).spending.items[i].amount = 0))
        => (~last.ok /\ store = last.pre /\ settings = last.preSettings)

\* a snapshot that fails verification (a record of amount 0) was refused
\* while the table held other rows than the snapshot
C10_Witness ==
    /\ Restored /\ ~last.ok
    /\ Found(files, last.id)
    /\ Parsable(SnapshotOf(last.file))
    /\ \E i \in DOMAIN SnapshotOf(last.file).spending.items :
          SnapshotOf(last.file).spending.items[i].amount = 0
    /\ store # {}
    /\ store # RowsOf(SnapshotOf(last.file).spending.items)

----------------------------------------------------------------------------
(* Duplicate detection of addSpending: adds from both paths, time passing *)

\* time passes without any call
advance(days, ms) ==
    /\ now' = PlusMs(PlusDays(now, days), ms)
    /\ last' = [op |-> "advance"]
    /\ hist' = Count(hist, 0, 0, {})
    /\ UNCHANGED <<store, seq, files, settings>>

\* dates the entry form accepts: yesterday, today, tomorrow
FormDayOffsets == {-1, 0, 1}
DedupSteps == {MsPerMinute, 6 * MsPerMinute}

DedupAddFromForm ==
    /\ Bounded
    /\ \E a \in FormAmounts, d \in DetailsSet, o \in FormDayOffsets :
          addSpending(a, d, DateOnly(PlusDays(now, o)), 1)
    /\ UNCHANGED <<Scheduler, Database>>

DedupAddFromNotification ==
    /\ Bounded
    /\ \E a \in FormAmounts, d \in DetailsSet :
          addSpending(a, d, ToISOString(now), 1)
    /\ UNCHANGED <<Scheduler, Database>>

DedupAddThrows ==
    /\ Bounded
    /\ \E a \in FormAmounts, d \in DetailsSet, f \in {"lookup", "insert"} :
          addSpendingThrows(a, d, ToISOString(now), 1, f)
    /\ UNCHANGED <<Scheduler, Database>>

DedupAdvance ==
    /\ Bounded
    /\ \E k \in DedupSteps : advance(0, k)
    /\ UNCHANGED <<Scheduler, Database>>

NextDedup ==
    \/ DedupAddFromForm
    \/ DedupAddFromNotification
    \/ DedupAddThrows
    \/ DedupAdvance

SpecDedup == Init /\ [][NextDedup]_vars

\* a row of the given amount and details was inserted less than five
\* minutes before the instant t
InsertedRecently(rows, amount, details, t) ==
    \E r \in rows :
        /\ r.amount = amount /\ r.details = details
        /\ \E e \in hist.inserted :
              /\ e.id = r.id
              /\ TimeLT(MinusMs(t, 5 * MsPerMinute), e.at)

\* C5: whatever date the caller passes, addSpending stores nothing when a
\* record of the same amount and details was inserted less than 5 minutes
\* before, and stores the record otherwise.
C5_DedupByInsertionTime ==
    last.op = "add"
        => (last.changes = 0
               <=> InsertedRecently(last.pre, last.amount, last.details, last.at))

\* C20: when the duplicate lookup of add() fails while the insert itself
\* would succeed, add() still stores the new record and returns its id
C20_LookupFailureDoesNotBlockInsert ==
    (last.op = "addThrew" /\ last.failing = "lookup")
        => \E r \in store \ last.pre :
              /\ r.amount = last.amount
              /\ r.details = last.details
              /\ r.date = last.date

----------------------------------------------------------------------------
(* AutoBackupScheduler *)

Frequencies == {"daily", "weekly", "monthly"}

\* the interval of the switch in shouldCreateBackup, in days
IntervalDays(frequency) ==
    CASE frequency = "daily" -> 1
      [] frequency = "weekly" -> 7
      [] frequency = "monthly" -> 30

\* the mutation of shouldCreateBackup that takes every frequency for daily
shouldCreateBackupDaily(s, t) ==
    IF ~s.enabled \/ s.lastBackup = << >> THEN TRUE
    ELSE TimeLE(PlusDays(ParseDate(s.lastBackup), 1), t)

\* now - lastBackup >= interval, at clock reading t
shouldCreateBackup(s, t) ==
    IF ~s.enabled \/ s.lastBackup = << >> THEN TRUE
    ELSE TimeLE(PlusDays(ParseDate(s.lastBackup), IntervalDays(s.frequency)), t)

TOLERANCE == 5 * MsPerMinute

\* backupTime.setHours(hours, minutes, 0, 0) on today's date
MsOfClock(c) == c[1].v * 3600000 + c[3].v * MsPerMinute

Abs(x) == IF x < 0 THEN -x ELSE x

isBackupTime(s, t) ==
    s.enabled /\ Abs(t.ms - MsOfClock(s.time)) <= TOLERANCE

\* { ...this.schedule, ...schedule }
Merge(s, partial) ==
    [f \in DOMAIN s |-> IF f \in DOMAIN partial THEN partial[f] ELSE s[f]]

\* saveSchedule: the state it leaves.  saved is the item 'backup_schedule'
\* of the storage, << >> while there is none.  The error of a failing setItem
\* or of enableBackgroundBackup is caught and logged.
SaveOutcome(partial, setItemFails) ==
    LET merged == Merge(schedule, partial)
    IN  IF setItemFails
        THEN [schedule |-> merged, saved |-> saved, registered |-> registered]
        ELSE [schedule |-> merged, saved |-> << merged >>,
              registered |-> IF merged.enabled
                             THEN (IF available THEN TRUE ELSE registered)
                             ELSE FALSE]

saveSchedule(partial, setItemFails) ==
    LET out == SaveOutcome(partial, setItemFails)
    IN  /\ schedule' = out.schedule
        /\ saved' = out.saved
        /\ registered' = out.registered
        /\ UNCHANGED available

\* the mutation of createAutomaticBackup that moves lastBackup whether
\* createBackup returned or threw
createAutomaticBackupEager(skew, write, setItemFails) ==
    LET gated == shouldCreateBackup(schedule, now) /\ isBackupTime(schedule, now)
        out == CreateOutcome(skew, {}, write)
        done == PlusMs(out.t2, 1)
        obs == [op |-> "tick", at |-> now, pre |-> schedule,
                preSaved |-> saved, preFiles |-> files]
    IN  /\ UNCHANGED <<store, seq, settings, screen, Database>>
        /\ IF ~gated
           THEN /\ UNCHANGED <<now, files, schedule, saved, registered, available>>
                /\ last' = obs @@ [result |-> FALSE, invoked |-> FALSE]
                /\ hist' = [Count(hist, 0, 0, {}) EXCEPT !.nticks = @ + 1]
           ELSE /\ now' = done
                /\ files' = out.files
                /\ saveSchedule([lastBackup |-> ToISOString(done)], setItemFails)
                /\ last' = obs @@ [result |-> out.ok, invoked |-> TRUE,
                                   stored |-> ~setItemFails]
                /\ hist' = [Count(hist, 0, 0, {}) EXCEPT !.nticks = @ + 1]

\* the task callback: createAutomaticBackup
createAutomaticBackup(skew, write, setItemFails) ==
    LET gated == shouldCreateBackup(schedule, now) /\ isBackupTime(schedule, now)
        out == CreateOutcome(skew, {}, write)
        done == PlusMs(out.t2, 1)
        obs == [op |-> "tick", at |-> now, pre |-> schedule,
                preSaved |-> saved, preFiles |-> files]
    IN  /\ UNCHANGED <<store, seq, settings, screen, Database>>
        /\ IF ~gated
           THEN /\ UNCHANGED <<now, files, schedule, saved, registered, available>>
                /\ last' = obs @@ [result |-> FALSE, invoked |-> FALSE]
                /\ hist' = [Count(hist, 0, 0, {}) EXCEPT !.nticks = @ + 1]
           ELSE /\ now' = done
                /\ files' = out.files
                /\ IF out.ok
                   THEN /\ saveSchedule([lastBackup |-> ToISOString(done)],
                                        setItemFails)
                        /\ last' = obs @@ [result |-> TRUE, invoked |-> TRUE,
                                           stored |-> ~setItemFails]
                        /\ hist' = [Count(hist, 1, 0, {out.data.timestamp})
                                       EXCEPT !.nticks = @ + 1]
                   ELSE /\ UNCHANGED <<schedule, saved, registered, available>>
                        /\ last' = obs @@ [result |-> FALSE, invoked |-> TRUE]
                        /\ hist' = [Count(hist, 0, 0, {}) EXCEPT !.nticks = @ + 1]

\* the mutation of testBackup that applies the gates of the task
testBackupGated(skew, write) ==
    LET out == CreateOutcome(skew, {}, write)
        gated == shouldCreateBackup(schedule, now) /\ isBackupTime(schedule, now)
        obs == [op |-> "test", at |-> now, pre |-> schedule, preFiles |-> files,
                write |-> write]
    IN  /\ now' = IF gated THEN PlusMs(out.t2, 1) ELSE now
        /\ files' = IF gated THEN out.files ELSE files
        /\ last' = obs @@ [result |-> gated /\ out.ok]
        /\ hist' = IF gated /\ out.ok
                   THEN Count(hist, 1, 0, {out.data.timestamp})
                   ELSE Count(hist, 0, 0, {})
        /\ UNCHANGED <<store, seq, settings, Scheduler, Database>>

\* testBackup: createBackup, true when it returned and false when it threw
testBackup(skew, write) ==
    LET out == CreateOutcome(skew, {}, write)
        obs == [op |-> "test", at |-> now, pre |-> schedule, preFiles |-> files,
                write |-> write]
    IN  /\ now' = PlusMs(out.t2, 1)
        /\ files' = out.files
        /\ last' = obs @@ [result |-> out.ok]
        /\ hist' = IF out.ok
                   THEN Count(hist, 1, 0, {out.data.timestamp})
                   ELSE Count(hist, 0, 0, {})
        /\ UNCHANGED <<store, seq, settings, Scheduler, Database>>

\* backup screen: handleToggleSchedule / updateSchedule save the screen's
\* copy of the schedule with the edited field, then keep it
editSchedule(updates, setItemFails) ==
    /\ saveSchedule(Merge(screen, updates), setItemFails)
    /\ screen' = Merge(screen, updates)
    /\ last' = [op |-> "edit", updates |-> updates, pre |-> schedule,
                preSaved |-> saved, preRegistered |-> registered,
                stored |-> ~setItemFails]
    /\ hist' = [Count(hist, 0, 0, {}) EXCEPT !.nedits = @ + 1]
    /\ UNCHANGED <<now, store, seq, files, settings, Database>>

\* backup screen: loadSchedule
loadScreen ==
    /\ screen' = schedule
    /\ last' = [op |-> "load"]
    /\ hist' = [Count(hist, 0, 0, {}) EXCEPT !.nedits = @ + 1]
    /\ UNCHANGED <<now, store, seq, files, settings, schedule, saved,
                   registered, available, Database>>

----------------------------------------------------------------------------
(* The scheduler with its screen, the task facility and the clock *)

MaxTicks == 3
MaxEdits == 3
MaxDays == 8

DaySteps == {2, 6}
MinuteSteps == {4 * MsPerMinute}

InitSched == InitAny

ToggleSchedule ==
    /\ hist.nedits < MaxEdits
    /\ \E f \in BOOLEAN : editSchedule([enabled |-> ~screen.enabled], f)

ChangeFrequency ==
    /\ hist.nedits < MaxEdits
    /\ \E fr \in Frequencies :
          editSchedule([frequency |-> fr], FALSE)

OpenScreen ==
    /\ hist.nedits < MaxEdits
    /\ screen # schedule
    /\ loadScreen

\* the facility wakes the task it has registered
Tick ==
    /\ hist.nticks < MaxTicks
    /\ registered
    /\ \E w \in {"ok", "fails"} : createAutomaticBackup(0, w, FALSE)

DaysPass ==
    /\ \E d \in DaySteps :
          /\ now.day + d <= StartTime.day + MaxDays
          /\ advance(d, 0)
    /\ UNCHANGED <<Scheduler, Database>>

MinutesPass ==
    /\ \E k \in MinuteSteps :
          /\ now.ms + k <= MsOfClock(Clock(2, 10))
          /\ advance(0, k)
    /\ UNCHANGED <<Scheduler, Database>>

NextSched ==
    \/ ToggleSchedule
    \/ ChangeFrequency
    \/ OpenScreen
    \/ Tick
    \/ DaysPass
    \/ MinutesPass

SpecSched == InitSched /\ [][NextSched]_vars

----------------------------------------------------------------------------
(* Properties of the scheduler *)

Ticked == last.op = "tick"

\* the interval of a frequency, as the policy states it
FrequencyInterval(frequency) ==
    IF frequency = "daily" THEN 1 ELSE IF frequency = "weekly" THEN 7 ELSE 30

\* lastBackup is null or now - lastBackup >= the frequency interval
Due(s, t) ==
    \/ s.lastBackup = << >>
    \/ TimeLE(PlusDays(ParseDate(s.lastBackup), FrequencyInterval(s.frequency)), t)

\* now is within 5 minutes of the configured time of today
InWindow(s, t) ==
    LET at == s.time[1].v * 60 + s.time[3].v
    IN  /\ t.ms >= (at - 5) * MsPerMinute
        /\ t.ms <= (at + 5) * MsPerMinute

\* C6: with the policy enabled, a tick invokes createBackup exactly when the
\* backup is due and the clock is inside the time window; a tick that does
\* not invoke it returns false, writes no file and leaves the policy, in
\* memory and in the storage, as it was.
C6_TickGating ==
    (Ticked /\ last.pre.enabled)
        => /\ last.invoked <=> (Due(last.pre, last.at) /\ InWindow(last.pre, last.at))
           /\ ~last.invoked
                 => /\ last.result = FALSE
                    /\ files = last.preFiles
                    /\ schedule = last.pre
                    /\ saved = last.preSaved

\* whole days between the last backup and the tick
DaysSinceLastBackup == last.at.day - ParseDate(last.pre.lastBackup).day

\* weekly policy, last backup 2 days before: the tick returned false
C6_WitnessTwoDays ==
    /\ Ticked /\ last.pre.enabled
    /\ last.pre.frequency = "weekly"
    /\ last.pre.lastBackup # << >>
    /\ DaysSinceLastBackup = 2
    /\ InWindow(last.pre, last.at)
    /\ last.result = FALSE

\* weekly policy, last backup 8 days before, inside the window: the tick
\* returned true and moved lastBackup
C6_WitnessEightDays ==
    /\ Ticked /\ last.pre.enabled
    /\ last.pre.frequency = "weekly"
    /\ last.pre.lastBackup # << >>
    /\ DaysSinceLastBackup = 8
    /\ InWindow(last.pre, last.at)
    /\ last.result = TRUE
    /\ schedule.lastBackup # last.pre.lastBackup

\* due, outside the window: the tick returned false
C6_WitnessOutsideWindow ==
    /\ Ticked /\ last.pre.enabled
    /\ Due(last.pre, last.at)
    /\ ~InWindow(last.pre, last.at)
    /\ last.result = FALSE

\* C7: after the screen switched the policy on while the facility was
\* unavailable, the policy is disabled in memory and in the storage; in
\* every state an enabled policy has its task registered.
C7_EnableRollsBack ==
    /\ (last.op = "edit" /\ last.stored /\ ~available
           /\ "enabled" \in DOMAIN last.updates /\ last.updates.enabled)
          => /\ ~schedule.enabled
             /\ saved = << >> \/ ~saved[1].enabled
    /\ (schedule.enabled /\ saved = << schedule >>) => registered

----------------------------------------------------------------------------
(* Wake-ups of the task with the frequency and the time of the policy left
   alone: the screen only switches the policy on and off *)

\* the policy the scheduler starts with: the default, or the default with a
\* frequency chosen and saved in an earlier session
InitThrottle ==
    /\ InitAny
    /\ \E fr \in Frequencies :
          /\ schedule = [DEFAULT_SCHEDULE EXCEPT !.frequency = fr]
          /\ screen = schedule
          /\ saved = IF fr = DEFAULT_SCHEDULE.frequency THEN << >> ELSE << schedule >>

NextThrottle ==
    \/ ToggleSchedule
    \/ OpenScreen
    \/ Tick
    \/ DaysPass
    \/ MinutesPass

SpecThrottle == InitThrottle /\ [][NextThrottle]_vars

\* the second of two timestamps is a whole interval or more after the first
Apart(a, b, days) == TimeLE(PlusDays(ParseDate(a), days), ParseDate(b))

\* C11: any two backups created by ticks are at least one frequency interval
\* apart, however often the task is woken.
C11_SelfThrottling ==
    \A a, b \in hist.created :
        a # b => \/ Apart(a, b, FrequencyInterval(schedule.frequency))
                 \/ Apart(b, a, FrequencyInterval(schedule.frequency))

----------------------------------------------------------------------------
(* The cap of the directory: createBackup, importBackup and deleteBackup,
   without faults and with both clock readings of createBackup equal, from a
   directory that eight earlier createBackup calls filled, one a day *)

MaxDeletes == 1

EarlierDays == 92..99

\* the snapshot createBackup wrote on day d with an empty table
Earlier(d) == BackupData(<< >>, Null, Time(d, 0))

EarlierFiles ==
    [f \in {CreatedName(Sanitize(ToISOString(Time(d, 0)))) : d \in EarlierDays}
        |-> Earlier(f[2].v)]

InitCap ==
    /\ Started
    /\ now = StartTime
    /\ files = EarlierFiles
    /\ store = {}
    /\ seq = 0
    /\ settings = Null
    /\ schedule = DEFAULT_SCHEDULE
    /\ screen = DEFAULT_SCHEDULE
    /\ saved = << >>
    /\ registered = FALSE
    /\ available = TRUE
    /\ last = NoOp
    /\ hist = [nops |-> Cardinality(EarlierDays),
               ncreate |-> Cardinality(EarlierDays), nimport |-> 0,
               nticks |-> 0, nedits |-> 0,
               created |-> {Earlier(d).timestamp : d \in EarlierDays},
               inserted |-> {}]

\* a snapshot another installation exported, older than every local one
ExportedElsewhere ==
    BackupData(<< Row(1, 500, "Tea", OldDate) >>, Null, ParseDate(OldStamp))

CapSources == {ExportedElsewhere}

\* the entry the user removes on the screen: the newest or the oldest listed
CapDeleteIds ==
    LET backups == getAvailableBackups(files)
    IN  IF backups = << >> THEN {}
        ELSE {backups[1].id, backups[Len(backups)].id}

CapCreate ==
    /\ hist.ncreate < MaxCreates
    /\ createBackup(0, 1, {}, "ok")
    /\ UNCHANGED <<Scheduler, Database>>

CapImport ==
    /\ hist.nimport < MaxImports
    /\ \E src \in CapSources : importBackup(src, 1)
    /\ UNCHANGED <<Scheduler, Database>>

CapDelete ==
    /\ hist.nops - hist.ncreate - hist.nimport < MaxDeletes
    /\ \E id \in CapDeleteIds : deleteBackup(id, 1)
    /\ UNCHANGED <<Scheduler, Database>>

NextCap ==
    \/ CapCreate
    \/ CapImport
    \/ CapDelete

SpecCap == InitCap /\ [][NextCap]_vars

\* a successful createBackup is the step taken
CreatedNow == last'.op = "create" /\ last'.ok

\* C12: right after every successful createBackup the directory holds at most
\* 10 files, imported ones included, and no file it removed is newer than a
\* file it kept.
C12_CapCountsImports ==
    [][CreatedNow
          => /\ Cardinality(DOMAIN files') <= MAX_BACKUPS
             /\ \A f \in (DOMAIN files) \ (DOMAIN files') :
                   \A g \in DOMAIN files' :
                      ~TimeLT(ParseDate(files'[g].timestamp),
                              ParseDate(files[f].timestamp))]_vars

----------------------------------------------------------------------------
(* verifyBackupIntegrity applied to parsed documents of every shape *)

MaxRecords == 2

RecordFields == {"id", "amount", "details", "date"}

\* records with any of the four fields absent, the amount 0 or not
RecordShapes ==
    {[f \in D |-> CASE f = "id" -> 1
                    [] f = "amount" -> a
                    [] f = "details" -> "Tea"
                    [] f = "date" -> OldDate] :
        D \in SUBSET RecordFields, a \in {0, 500}}

RecordLists == UNION {[1..n -> RecordShapes] : n \in 0..MaxRecords}

\* the spending field: an array, or a value that is not one
SpendingShapes ==
    {[isArray |-> FALSE, items |-> << >>]}
        \cup {[isArray |-> TRUE, items |-> l] : l \in RecordLists}

TopFields == {"version", "timestamp", "spending"}

\* parsed documents: each top field present or absent, two versions
Documents ==
    {[f \in D |-> CASE f = "version" -> v
                    [] f = "timestamp" -> OldStamp
                    [] f = "spending" -> sp] :
        D \in SUBSET TopFields, v \in {BACKUP_VERSION, "0.9.0"},
        sp \in SpendingShapes}

\* every variable but last, with nothing stored and nothing scheduled
Idle ==
    /\ Started
    /\ now = StartTime
    /\ files = << >>
    /\ store = {}
    /\ seq = 0
    /\ settings = Null
    /\ schedule = DEFAULT_SCHEDULE
    /\ screen = DEFAULT_SCHEDULE
    /\ saved = << >>
    /\ registered = FALSE
    /\ available = TRUE
    /\ hist = [nops |-> 0, ncreate |-> 0, nimport |-> 0, nticks |-> 0,
               nedits |-> 0, created |-> {}, inserted |-> {}]

InitVerify ==
    /\ Idle
    /\ \E doc \in Documents : last = [op |-> "parsed", doc |-> doc]

Verify ==
    /\ last.op = "parsed"
    /\ last' = [op |-> "verify", doc |-> last.doc,
                result |-> verifyBackupIntegrity(last.doc)]
    /\ UNCHANGED <<now, files, store, seq, settings, schedule, saved,
                   registered, available, screen, Database, hist>>

NextVerify == Verify

SpecVerify == InitVerify /\ [][NextVerify]_vars

Verified == last.op = "verify"

\* the document has no version, no timestamp, no spending array, or a record
\* without one of the four fields
Lacking(doc) ==
    \/ "version" \notin DOMAIN doc
    \/ "timestamp" \notin DOMAIN doc
    \/ "spending" \notin DOMAIN doc
    \/ ~doc.spending.isArray
    \/ \E i \in DOMAIN doc.spending.items :
          RecordFields \ (DOMAIN doc.spending.items[i]) # {}

\* the same document in the current version
Current(doc) ==
    [f \in DOMAIN doc |-> IF f = "version" THEN BACKUP_VERSION ELSE doc[f]]

\* C13: verifyBackupIntegrity returns false for a document that lacks the
\* version, the timestamp, the spending array or a field of a record; a
\* version other than the current one gets the answer the current one gets.
C13_VerifyRejectsLacking ==
    Verified
        => /\ Lacking(last.doc) => last.result = FALSE
           /\ last.result = verifyBackupIntegrity(Current(last.doc))

\* a document of two records, the second without its date, was refused
C13_Witness ==
    /\ Verified
    /\ TopFields \subseteq DOMAIN last.doc
    /\ last.doc.spending.isArray
    /\ Len(last.doc.spending.items) = 2
    /\ DOMAIN last.doc.spending.items[1] = RecordFields
    /\ DOMAIN last.doc.spending.items[2] = RecordFields \ {"date"}
    /\ last.result = FALSE

----------------------------------------------------------------------------
(* calculateMetadata applied to lists of records *)

MaxRows == 3

MetaAmounts == {0, 500, 1250}

\* dates of records: date-only as the form stores them, full timestamps as
\* the notification listener stores them
MetaDates == {OldDate, DateOnly(StartTime), ToISOString(StartTime)}

MetaLists ==
    UNION {{[i \in 1..n |-> Row(i, a[i], "Tea", d[i])] :
               a \in [1..n -> MetaAmounts], d \in [1..n -> MetaDates]} :
           n \in 0..MaxRows}

InitMetadata ==
    /\ Idle
    /\ \E rows \in MetaLists : last = [op |-> "rows", rows |-> rows]

Calculate ==
    /\ last.op = "rows"
    /\ last' = IF MetadataThrows(last.rows)
               THEN [op |-> "metadata", rows |-> last.rows, threw |-> TRUE]
               ELSE [op |-> "metadata", rows |-> last.rows, threw |-> FALSE,
                     result |-> calculateMetadata(last.rows)]
    /\ UNCHANGED <<now, files, store, seq, settings, schedule, saved,
                   registered, available, screen, Database, hist>>

NextMetadata == Calculate

SpecMetadata == InitMetadata /\ [][NextMetadata]_vars

RECURSIVE AmountsUpTo(_, _)
\* the amounts of the first n records, added up
AmountsUpTo(rows, n) ==
    IF n = 0 THEN 0 ELSE AmountsUpTo(rows, n - 1) + rows[n].amount

\* C14: the metadata of a record list has totalRecords equal to its length
\* and totalAmount equal to the sum of its amounts; for the empty list both
\* are 0 and both ends of dateRange are the empty string.
C14_MetadataTotals ==
    last.op = "metadata"
        => /\ ~last.threw
           /\ last.result.totalRecords = Len(last.rows)
           /\ last.result.totalAmount = AmountsUpTo(last.rows, Len(last.rows))
           /\ last.rows = << >>
                 => /\ last.result.totalRecords = 0
                    /\ last.result.totalAmount = 0
                    /\ last.result.dateRange = [earliest |-> << >>, latest |-> << >>]

\* the metadata of three records of different amounts was computed
C14_Witness ==
    /\ last.op = "metadata"
    /\ Len(last.rows) = 3
    /\ last.rows[1].amount = 500 /\ last.rows[2].amount = 0
    /\ last.rows[3].amount = 1250
    /\ last.result.totalAmount = 1750
    /\ last.result.totalRecords = 3

----------------------------------------------------------------------------
(* Snapshot files of the directory *)

\* the files that hold a snapshot: a truncated file holds none
Snapshots == {f \in DOMAIN files : Parsable(files[f])}

\* C15: every snapshot file of the directory, created or imported, carries
\* metadata whose totalRecords is the number of its records and whose
\* totalAmount is their sum, and getAvailableBackups shows these two numbers.
C15_SnapshotInvariant ==
    \A f \in Snapshots :
        LET items == files[f].spending.items
        IN  /\ "metadata" \in DOMAIN files[f]
            /\ files[f].metadata.totalRecords = Len(items)
            /\ files[f].metadata.totalAmount = AmountsUpTo(items, Len(items))
            /\ InfoOf(files, f).recordCount = Len(items)
            /\ InfoOf(files, f).totalAmount = AmountsUpTo(items, Len(items))


\* the operations on the backup directory, over a table filled from the form
NextFiles ==
    \/ AddFromForm
    \/ CreateBackup
    \/ ImportBackup
    \/ DeleteBackup
    \/ ExportBackup
    \/ ListBackups
    \/ BackupStats
    \/ RestoreFromBackup
    \/ RestoreFromBackupTx

SpecFiles == Init /\ [][NextFiles]_vars

\* every file of the directory is still there, with the content it had
FilesKept == \A f \in DOMAIN files : f \in DOMAIN files' /\ files'[f] = files[f]

\* C16: restoreFromBackup, importBackup, exportBackup, getAvailableBackups and
\* getBackupStats leave every file of the directory in place with its
\* content, whether they succeed or fail; a file disappears only in a step
\* of deleteBackup or createBackup.
C16_OnlyDeleteAndCreateRemove ==
    [][/\ last'.op \in {"restore", "import", "export", "list", "stats"}
             => FilesKept
       /\ ~FilesKept => last'.op \in {"deleteBackup", "create"}]_vars

\* a restore failed after it had emptied the table, in a directory of two
\* files or more
C16_Witness ==
    /\ Restored /\ ~last.ok /\ last.modified
    /\ last.file \in DOMAIN files
    /\ Cardinality(DOMAIN files) >= 2

----------------------------------------------------------------------------
(* initializeDatabase (DatabaseManager.ts): calls from several call sites,
   overlapping at the await of execAsync, over restarts of the process *)

MaxInitSteps == 8

ExecOutcomes == {"ok", "fails"}

\* the mutation of awaitExec that recreates the table
awaitExecRecreating(c, outcome) ==
    /\ calls[c] = "exec"
    /\ databaseInitialized' = TRUE
    /\ table' = (table \/ outcome = "ok")
    /\ store' = IF outcome = "ok" THEN {} ELSE store
    /\ calls' = [calls EXCEPT ![c] = "ready"]
    /\ last' = [op |-> "init", step |-> "exec", caller |-> c,
                outcome |-> outcome, threw |-> FALSE, pre |-> store]
    /\ hist' = Count(hist, 0, 0, {})
    /\ UNCHANGED <<now, files, seq, settings>>

\* lines 20-27: the flag is read; when it is set the call returns, else a
\* connection is opened and CREATE TABLE IF NOT EXISTS is sent
enterInit(c) ==
    /\ calls[c] = "idle"
    /\ calls' = [calls EXCEPT ![c] = IF databaseInitialized THEN "ready" ELSE "exec"]
    /\ last' = [op |-> "init", step |-> "enter", caller |-> c,
                flag |-> databaseInitialized, touched |-> ~databaseInitialized,
                threw |-> FALSE, pre |-> store]
    /\ hist' = Count(hist, 0, 0, {})
    /\ UNCHANGED <<now, files, store, seq, settings, databaseInitialized, table>>

\* lines 30-45: execAsync settles; the flag is set whether it succeeded or
\* failed, and the error is not thrown
awaitExec(c, outcome) ==
    /\ calls[c] = "exec"
    /\ databaseInitialized' = TRUE
    /\ table' = (table \/ outcome = "ok")
    /\ calls' = [calls EXCEPT ![c] = "ready"]
    /\ last' = [op |-> "init", step |-> "exec", caller |-> c,
                outcome |-> outcome, threw |-> FALSE, pre |-> store]
    /\ hist' = Count(hist, 0, 0, {})
    /\ UNCHANGED <<now, files, store, seq, settings>>

\* the statement of the call site after its initializeDatabase returned;
\* without the table the statement fails
proceed(c) ==
    /\ calls[c] = "ready"
    /\ calls' = [calls EXCEPT ![c] = "idle"]
    /\ UNCHANGED <<databaseInitialized, table>>
    /\ IF c = "addSpending" /\ table
       THEN \E a \in FormAmounts, d \in DetailsSet :
               addSpending(a, d, DateOnly(now), 1)
       ELSE /\ last' = [op |-> "statement", caller |-> c, ok |-> table]
            /\ hist' = Count(hist, 0, 0, {})
            /\ UNCHANGED <<now, files, store, seq, settings>>

\* the process ends and starts again: the flag of the module is false,
\* the calls in flight are gone, the database file stays
restart ==
    /\ databaseInitialized' = FALSE
    /\ calls' = [c \in Callers |-> "idle"]
    /\ last' = [op |-> "restart"]
    /\ hist' = Count(hist, 0, 0, {})
    /\ UNCHANGED <<now, files, store, seq, settings, table>>

\* a fresh installation before any call
InitInit ==
    /\ databaseInitialized = FALSE
    /\ table = FALSE
    /\ calls = [c \in Callers |-> "idle"]
    /\ now = StartTime
    /\ files = << >>
    /\ store = {}
    /\ seq = 0
    /\ settings = Null
    /\ schedule = DEFAULT_SCHEDULE
    /\ screen = DEFAULT_SCHEDULE
    /\ saved = << >>
    /\ registered = FALSE
    /\ available = TRUE
    /\ last = NoOp
    /\ hist = [nops |-> 0, ncreate |-> 0, nimport |-> 0, nticks |-> 0,
               nedits |-> 0, created |-> {}, inserted |-> {}]

InitSteps == hist.nops < MaxInitSteps

EnterInit ==
    /\ InitSteps
    /\ \E c \in Callers : enterInit(c)
    /\ UNCHANGED Scheduler

AwaitExec ==
    /\ InitSteps
    /\ \E c \in Callers, o \in ExecOutcomes : awaitExec(c, o)
    /\ UNCHANGED Scheduler

Proceed ==
    /\ InitSteps
    /\ \E c \in Callers : proceed(c)
    /\ UNCHANGED Scheduler

Restart ==
    /\ InitSteps
    /\ restart
    /\ UNCHANGED Scheduler

NextInit ==
    \/ EnterInit
    \/ AwaitExec
    \/ Proceed
    \/ Restart

SpecInit == InitInit /\ [][NextInit]_vars

----------------------------------------------------------------------------
(* testBackup in every state of the policy *)

MaxTests == 2

\* clock readings inside and outside the window of 02:00
TestClocks == {StartTime, PlusMs(StartTime, 4 * 3600000)}

\* lastBackup: never, or the day before
TestLastBackups == {<< >>, ToISOString(Time(StartTime.day - 1, 7200000))}

InitTest ==
    /\ Started
    /\ now \in TestClocks
    /\ files = << >>
    /\ store = {}
    /\ seq = 0
    /\ settings = Null
    /\ \E e \in BOOLEAN, fr \in Frequencies, lb \in TestLastBackups :
          schedule = [enabled |-> e, frequency |-> fr, time |-> Clock(2, 0),
                      lastBackup |-> lb]
    /\ screen = schedule
    /\ saved = IF schedule = DEFAULT_SCHEDULE THEN << >> ELSE << schedule >>
    /\ available = TRUE
    /\ registered = schedule.enabled
    /\ last = NoOp
    /\ hist = [nops |-> 0, ncreate |-> 0, nimport |-> 0, nticks |-> 0,
               nedits |-> 0, created |-> {}, inserted |-> {}]

TestBackup ==
    /\ hist.nops < MaxTests
    /\ \E skew \in SkewChoices, w \in WriteOutcomes : testBackup(skew, w)

NextTest == TestBackup

SpecTest == InitTest /\ [][NextTest]_vars

Tested == last.op = "test"

\* the files the call added that hold a snapshot
NewSnapshots == {f \in (DOMAIN files) \ (DOMAIN last.preFiles) : Parsable(files[f])}

\* C18: whatever the policy and the clock, testBackup runs createBackup
\* once: it returns true exactly when createBackup wrote its snapshot, which
\* it does whenever the file system accepts the write.
C18_TestBackupBypassesGates ==
    Tested
        => /\ last.write = "ok" => last.result = TRUE
           /\ last.result <=> Cardinality(NewSnapshots) = 1
           /\ Cardinality((DOMAIN files) \ (DOMAIN last.preFiles)) <= 1
           /\ \A f \in DOMAIN last.preFiles : f \in DOMAIN files

\* enabled weekly policy backed up the day before, clock outside the
\* window: testBackup returned true and the directory has a new snapshot
C18_Witness ==
    /\ Tested
    /\ last.pre.enabled /\ last.pre.frequency = "weekly"
    /\ last.pre.lastBackup # << >>
    /\ ~InWindow(last.pre, last.at)
    /\ last.result = TRUE
    /\ NewSnapshots # {}

----------------------------------------------------------------------------
(* getNextBackupTime.  Days are counted from 1 January of a common year,
   day 1; the device clock runs on UTC *)

MonthLengths == <<31, 28, 31, 30, 31, 30, 31, 31, 30, 31, 30, 31>>

\* the day number of the first day of month m (m = 13: January after)
FirstDayOf(m) == 1 + SeqSum(SubSeq(MonthLengths, 1, m - 1))

\* Date.getMonth() + 1
MonthOf(d) == CHOOSE m \in 1..12 : FirstDayOf(m) <= d /\ d < FirstDayOf(m + 1)

\* Date.getDate()
DayOfMonth(d) == d - FirstDayOf(MonthOf(d)) + 1

\* nextBackup.setMonth(lastBackup.getMonth() + 1): the same day of the next
\* month, running over into the month after when that month is shorter
SetNextMonth(d) == FirstDayOf(MonthOf(d) + 1) + DayOfMonth(d) - 1

\* the result: << >> for null, else the one Date
getNextBackupTime(s) ==
    IF ~s.enabled \/ s.lastBackup = << >> THEN << >>
    ELSE LET lastBackup == ParseDate(s.lastBackup)
             day == CASE s.frequency = "daily" -> lastBackup.day + 1
                      [] s.frequency = "weekly" -> lastBackup.day + 7
                      [] s.frequency = "monthly" -> SetNextMonth(lastBackup.day)
         IN  << Time(day, MsOfClock(s.time)) >>

\* lastBackup: never, 31 January, 16 March, 10 April, 30 April
NextLastBackups ==
    {<< >>} \cup {ToISOString(Time(d, 7200123)) : d \in {31, 75, 100, 120}}

NextClocks == {Clock(2, 0), Clock(23, 30)}

InitNextTime ==
    /\ Started
    /\ now = StartTime
    /\ files = << >>
    /\ store = {}
    /\ seq = 0
    /\ settings = Null
    /\ \E e \in BOOLEAN, fr \in Frequencies, lb \in NextLastBackups,
          c \in NextClocks :
          schedule = [enabled |-> e, frequency |-> fr, time |-> c,
                      lastBackup |-> lb]
    /\ screen = schedule
    /\ saved = IF schedule = DEFAULT_SCHEDULE THEN << >> ELSE << schedule >>
    /\ available = TRUE
    /\ registered = schedule.enabled
    /\ last = NoOp
    /\ hist = [nops |-> 0, ncreate |-> 0, nimport |-> 0, nticks |-> 0,
               nedits |-> 0, created |-> {}, inserted |-> {}]

GetNextBackupTime ==
    /\ last.op = "none"
    /\ last' = [op |-> "next", pre |-> schedule,
                result |-> getNextBackupTime(schedule)]
    /\ UNCHANGED <<now, files, store, seq, settings, Scheduler, Database, hist>>

NextNextTime == GetNextBackupTime

SpecNextTime == InitNextTime /\ [][NextNextTime]_vars

\* C19: getNextBackupTime returns null exactly for a disabled policy or one
\* never backed up; otherwise the day of lastBackup plus the interval of the
\* due check (1, 7, 30 days), at the configured time of day.
C19_NextBackupTime ==
    last.op = "next"
        => /\ last.result = << >>
                 <=> (~last.pre.enabled \/ last.pre.lastBackup = << >>)
           /\ last.result # << >>
                 => last.result[1]
                      = Time(ParseDate(last.pre.lastBackup).day
                                + FrequencyInterval(last.pre.frequency),
                             (last.pre.time[1].v * 60 + last.pre.time[3].v)
                                * MsPerMinute)

----------------------------------------------------------------------------
(* Wake-ups of the task over a file system and a key-value storage that may
   reject a write, in every state of the policy *)

\* the task callback, with the outcome of createBackup's write and of
\* AsyncStorage.setItem
TickOverFaults ==
    /\ hist.nticks < MaxTicks
    /\ registered
    /\ \E w \in WriteOutcomes, f \in BOOLEAN : createAutomaticBackup(0, w, f)

NextRetry ==
    \/ TickOverFaults
    \/ DaysPass
    \/ MinutesPass

SpecRetry == InitTest /\ [][NextRetry]_vars

C21_WitnessStored ==
    /\ Ticked /\ last.invoked /\ last.result /\ last.stored
    /\ saved = << schedule >>
    /\ schedule.lastBackup # last.pre.lastBackup

----------------------------------------------------------------------------
(* isBackupTime at clock readings around the configured time and around
   midnight *)

\* configured times: 00:02, 02:00, 12:00, 23:58
GateTimes == {Clock(0, 2), Clock(2, 0), Clock(12, 0), Clock(23, 58)}

\* readings of the clock, in minutes of the day
GateMinutes == {0, 1, 6, 8, 115, 120, 125, 126, 714, 726, 1432, 1434, 1439}

InitGate ==
    /\ Started
    /\ \E mi \in GateMinutes, ms \in {0, 1} :
          now = Time(StartTime.day, mi * MsPerMinute + ms)
    /\ files = << >>
    /\ store = {}
    /\ seq = 0
    /\ settings = Null
    /\ \E e \in BOOLEAN, c \in GateTimes :
          schedule = [enabled |-> e, frequency |-> "daily", time |-> c,
                      lastBackup |-> << >>]
    /\ screen = schedule
    /\ saved = << schedule >>
    /\ available = TRUE
    /\ registered = schedule.enabled
    /\ last = NoOp
    /\ hist = [nops |-> 0, ncreate |-> 0, nimport |-> 0, nticks |-> 0,
               nedits |-> 0, created |-> {}, inserted |-> {}]

IsBackupTime ==
    /\ last.op = "none"
    /\ last' = [op |-> "gate", pre |-> schedule, at |-> now,
                result |-> isBackupTime(schedule, now)]
    /\ UNCHANGED <<now, files, store, seq, settings, Scheduler, Database, hist>>

NextGate == IsBackupTime

SpecGate == InitGate /\ [][NextGate]_vars

\* the distance of two times of day on the 24-hour clock, in milliseconds
ClockDistance(a, b) ==
    IF Abs(a - b) <= MsPerDay - Abs(a - b) THEN Abs(a - b) ELSE MsPerDay - Abs(a - b)

\* C22: with the policy enabled, the time gate is true exactly when the time
\* of day is within 5 minutes of the configured time on the 24-hour clock,
\* across midnight as well.
C22_TimeGateOnDayClock ==
    (last.op = "gate" /\ last.pre.enabled)
        => (last.result
              <=> ClockDistance(last.at.ms,
                                (last.pre.time[1].v * 60 + last.pre.time[3].v)
                                   * MsPerMinute) <= 5 * MsPerMinute)

----------------------------------------------------------------------------
(* createBackup over every content of the table *)

\* C23: the snapshot createBackup has just written passes
\* verifyBackupIntegrity, so getAvailableBackups reports it with the
\* isVerified flag createBackup returned, and restoreFromBackup does not
\* reject it as invalid.
C23_CreatedSnapshotVerifies ==
    (last.op = "create" /\ last.ok /\ last.info.filename \in DOMAIN files)
        => /\ verifyBackupIntegrity(files[last.info.filename])
           /\ InfoOf(files, last.info.filename).isVerified = last.info.isVerified
           /\ Rejection(files, last.info.id) # "invalid"

----------------------------------------------------------------------------
(* createBackup while the table or the settings cannot be read, over tables
   of no, one and two records and directories that earlier calls filled *)

Reads == {"spending", "settings"}

\* the directory after createBackup ran on each of the n days before today
FilledBy(n) ==
    [f \in {CreatedName(Sanitize(ToISOString(Time(d, 0)))) :
               d \in (StartTime.day - n)..(StartTime.day - 1)}
        |-> Earlier(f[2].v)]

\* tables the form can have filled
ReadTables ==
    { {},
      {Row(1, 1250, "Coffee", OldDate)},
      {Row(1, 1250, "Coffee", OldDate), Row(2, 300, "Tea", DateOnly(StartTime))} }

InitRead ==
    /\ Started
    /\ now = StartTime
    /\ \E n \in {0, 8, MAX_BACKUPS} :
          /\ files = FilledBy(n)
          /\ hist = [nops |-> n, ncreate |-> n, nimport |-> 0,
                     nticks |-> 0, nedits |-> 0,
                     created |-> {files[f].timestamp : f \in DOMAIN files},
                     inserted |-> {}]
    /\ store \in ReadTables
    /\ seq = Cardinality(store)
    /\ settings \in {Null} \cup SettingsValues
    /\ schedule = DEFAULT_SCHEDULE
    /\ screen = DEFAULT_SCHEDULE
    /\ saved = << >>
    /\ registered = FALSE
    /\ available = TRUE
    /\ last = NoOp

CreateOverFailedReads ==
    /\ last.op = "none"
    /\ \E skew \in SkewChoices, failedReads \in SUBSET Reads :
          createBackup(skew, 1, failedReads, "ok")
    /\ UNCHANGED <<Scheduler, Database>>

NextRead == CreateOverFailedReads

SpecRead == InitRead /\ [][NextRead]_vars

\* C24: createBackup returns although the table cannot be read: it writes a
\* snapshot without records, reports recordCount 0 and totalAmount 0 and
\* leaves no more than MAX_BACKUPS files, the new one among them; settings
\* that are missing or cannot be read are written as null.
C24_CreateSurvivesFailedReads ==
    last.op = "create"
        => /\ last.ok
           /\ last.info.filename \in DOMAIN files
           /\ Cardinality(DOMAIN files) = IF hist.ncreate > MAX_BACKUPS
                                          THEN MAX_BACKUPS ELSE hist.ncreate
           /\ "spending" \in last.failedReads
                 => /\ files[last.info.filename].spending.items = << >>
                    /\ files[last.info.filename].metadata.totalRecords = 0
                    /\ last.info.recordCount = 0
                    /\ last.info.totalAmount = 0
           /\ ("settings" \in last.failedReads \/ settings = Null)
                 => files[last.info.filename].settings = Null

\* the table held two records and the settings a value, neither could be
\* read, and the full directory was pruned
C24_Witness ==
    /\ last.op = "create" /\ last.failedReads = Reads
    /\ Cardinality(store) = 2 /\ settings # Null
    /\ Cardinality(DOMAIN files) = MAX_BACKUPS
    /\ hist.ncreate > MAX_BACKUPS

----------------------------------------------------------------------------
(* The loop and the final count of the best-effort restoreFromBackup *)

\* the restore ran its loop and its count without another call failing
BestEffortCounted ==
    Restored /\ ~last.tx /\ last.modified /\ last.reason \in {"ok", "zero"}

\* C25: in the copy of restoreFromBackup without a transaction, a record
\* whose insert fails is skipped and the records after it are still
\* inserted (each under its id, once); the restore raises an error when the snapshot has records and
\* the table has none afterwards, and returns when at least one row landed.
C25_BestEffortSkipsAndCounts ==
    BestEffortCounted
        => LET items == SnapshotOf(last.file).spending.items
           IN  /\ store \subseteq
                     {Row(items[i].id, items[i].amount, items[i].details,
                          items[i].date) : i \in (DOMAIN items) \ last.fails}
               /\ \A i \in (DOMAIN items) \ last.fails :
                     \E r \in store : r.id = items[i].id
               /\ ~last.ok <=> (Len(items) > 0 /\ store = {})
               /\ store # {} => last.ok

\* the insert of the first record failed, the second landed, and the restore
\* returned
C25_Witness ==
    /\ BestEffortCounted /\ last.ok
    /\ 1 \in last.fails /\ 2 \notin last.fails
    /\ Cardinality(store) = 1
    /\ Len(SnapshotOf(last.file).spending.items) = 2

\* every insert failed: the restore raised its error over an empty table
C25_WitnessZero ==
    /\ BestEffortCounted /\ ~last.ok
    /\ last.pre # {} /\ store = {}

----------------------------------------------------------------------------
(* Start of the process over a stored policy: the constructor has set
   this.schedule to DEFAULT_SCHEDULE and called loadSchedule, which has not
   yet come back from AsyncStorage.getItem; the facility may wake the task
   first *)

\* the policy stored by an earlier run of the process
InitStart ==
    /\ Started
    /\ now \in TestClocks
    /\ files = << >>
    /\ store = {}
    /\ seq = 0
    /\ settings = Null
    /\ schedule = DEFAULT_SCHEDULE
    /\ screen = DEFAULT_SCHEDULE
    /\ \E fr \in Frequencies, lb \in TestLastBackups :
          saved = << [enabled |-> TRUE, frequency |-> fr, time |-> Clock(2, 0),
                      lastBackup |-> lb] >>
    /\ available = TRUE
    /\ registered = TRUE
    /\ last = NoOp
    /\ hist = [nops |-> 0, ncreate |-> 0, nimport |-> 0, nticks |-> 0,
               nedits |-> 0, created |-> {}, inserted |-> {}]

\* loadSchedule comes back: { ...DEFAULT_SCHEDULE, ...JSON.parse(savedSchedule) }
loadSchedule ==
    /\ saved # << >>
    /\ schedule' = Merge(DEFAULT_SCHEDULE, saved[1])
    /\ last' = [op |-> "loadSchedule"]
    /\ hist' = Count(hist, 0, 0, {})
    /\ UNCHANGED <<now, store, seq, files, settings, saved, registered,
                   available, screen, Database>>

\* the one call of loadSchedule, made by the constructor, is pending as long
\* as this.schedule is the default: the stored policy is enabled, and a tick
\* on the default policy changes nothing
LoadSchedule ==
    /\ schedule = DEFAULT_SCHEDULE
    /\ loadSchedule

NextStart ==
    \/ LoadSchedule
    \/ Tick
    \/ DaysPass
    \/ MinutesPass

SpecStart == InitStart /\ [][NextStart]_vars

\* C26: a tick decides on the stored policy: the gates it applies give what
\* they give on the policy loadSchedule reads from the storage, also when the
\* task is woken before loadSchedule has come back.
C26_TickDecidesOnStoredPolicy ==
    (Ticked /\ last.preSaved # << >>)
        => (last.invoked
              <=> LET stored == Merge(DEFAULT_SCHEDULE, last.preSaved[1])
                  IN  /\ shouldCreateBackup(stored, last.at)
                      /\ isBackupTime(stored, last.at))

----------------------------------------------------------------------------
(* createBackup after the clock of the device was set back behind the
   snapshots of the directory *)

\* the clock: as it was, or set back by twenty days
BackClocks == {StartTime, Time(StartTime.day - 20, StartTime.ms)}

InitBack ==
    /\ Started
    /\ now \in BackClocks
    /\ \E n \in {8, MAX_BACKUPS} :
          /\ files = FilledBy(n)
          /\ hist = [nops |-> n, ncreate |-> n, nimport |-> 0,
                     nticks |-> 0, nedits |-> 0,
                     created |-> {files[f].timestamp : f \in DOMAIN files},
                     inserted |-> {}]
    /\ store \in ReadTables
    /\ seq = Cardinality(store)
    /\ settings \in {Null} \cup SettingsValues
    /\ schedule = DEFAULT_SCHEDULE
    /\ screen = DEFAULT_SCHEDULE
    /\ saved = << >>
    /\ registered = FALSE
    /\ available = TRUE
    /\ last = NoOp

SpecBack == InitBack /\ [][NextRead]_vars

\* C27: the file of the BackupInfo that createBackup returns is in the
\* directory when createBackup returns, whatever the directory held before.
C27_CreateKeepsItsResult ==
    (last.op = "create" /\ last.ok) => last.info.filename \in DOMAIN files

----------------------------------------------------------------------------
(* lastBackup over ticks and edits of the backup screen *)

\* C28: a tick or an edit of the screen that writes the policy to the
\* storage leaves there a lastBackup that is not null and not earlier than
\* the one the storage held before.
C28_LastBackupNeverMovesBack ==
    (/\ last.op \in {"tick", "edit"}
     /\ last.preSaved # << >>
     /\ last.preSaved[1].lastBackup # << >>)
        => /\ saved # << >>
           /\ saved[1].lastBackup # << >>
           /\ TimeLE(ParseDate(last.preSaved[1].lastBackup),
                     ParseDate(saved[1].lastBackup))

----------------------------------------------------------------------------
(* A wake-up of the task at the instant getNextBackupTime announces *)

\* the clock reaches the instant getNextBackupTime returns
WaitUntilNextBackupTime ==
    /\ last.op = "none"
    /\ getNextBackupTime(schedule) # << >>
    /\ TimeLE(now, getNextBackupTime(schedule)[1])
    /\ now' = getNextBackupTime(schedule)[1]
    /\ last' = [op |-> "advance"]
    /\ hist' = Count(hist, 0, 0, {})
    /\ UNCHANGED <<store, seq, files, settings, Scheduler, Database>>

NextAnnounced ==
    \/ WaitUntilNextBackupTime
    \/ Tick

SpecAnnounced == InitNextTime /\ [][NextAnnounced]_vars

\* C29: a tick of an enabled policy with a lastBackup, at the instant
\* getNextBackupTime returns for it, passes both gates: it invokes
\* createBackup.
C29_NextBackupTimePassesGates ==
    (/\ Ticked /\ last.pre.enabled /\ last.pre.lastBackup # << >>
     /\ getNextBackupTime(last.pre) = << last.at >>)
        => last.invoked

----------------------------------------------------------------------------
(* The app settings over restoreFromBackup *)

\* C30: a restore that raises an error leaves the stored app settings as
\* they were before the call, and so does any restore of a snapshot whose
\* settings are null; only a restore that returns replaces them.
C30_FailedRestoreKeepsSettings ==
    Restored
        => /\ ~last.ok => settings = last.preSettings
           /\ (last.file # << >> /\ Parsable(SnapshotOf(last.file))
                 /\ ~CarriesSettings(SnapshotOf(last.file)))
                 => settings = last.preSettings

====
